---- MODULE Spec2Model ----
(***************************************************************************)
(* Model of the email-to-text pipeline: the batch handler (index.mjs),     *)
(* parseEmail, retryOperation and moveToProcessed (emailParser.mjs) and    *)
(* sendTextMessage, validatePhoneNumber and formatServiceTicketMessage     *)
(* (openphone.mjs).                                                        *)
(*                                                                         *)
(* Strings whose characters matter (phone numbers, object keys, file       *)
(* names) are tuples of one-character strings.  Every await of the code is *)
(* one action, taken when the awaited call resolves; the synchronous code  *)
(* that follows the await up to the next one is part of that action.       *)
(***************************************************************************)
EXTENDS Integers, Sequences, FiniteSets, TLC

(* ---------------------------- bounds ----------------------------------- *)
\* most keys a listing returns
MaxKeys == 2
\* most recipients parseEmail is called with
MaxRecipients == 2

(* ------------------------ program constants ---------------------------- *)
MAX_RETRIES == 3
RETRY_DELAY == 1000
MinPhoneDigits == 11
MaxPhoneDigits == 15

(* --------------------------- characters -------------------------------- *)
LowerLetters ==
  <<"a","b","c","d","e","f","g","h","i","j","k","l","m",
    "n","o","p","q","r","s","t","u","v","w","x","y","z">>
UpperLetters ==
  <<"A","B","C","D","E","F","G","H","I","J","K","L","M",
    "N","O","P","Q","R","S","T","U","V","W","X","Y","Z">>
Digits == {"0","1","2","3","4","5","6","7","8","9"}

Range(s) == {s[i] : i \in DOMAIN s}

\* JavaScript values null and undefined, as an enum value and as a string
NullV == "#null"
UndefV == "#undefined"
NullS == <<"#null">>
UndefS == <<"#undefined">>
\* Boolean(v) of a string-or-null value
Truthy(s) == s # NullS /\ s # UndefS /\ s # <<>>

\* String.prototype.toLowerCase, one character
LowerChar(c) ==
  IF \E i \in DOMAIN UpperLetters : UpperLetters[i] = c
    THEN LowerLetters[CHOOSE i \in DOMAIN UpperLetters : UpperLetters[i] = c]
    ELSE c
ToLowerCase(s) == [i \in DOMAIN s |-> LowerChar(s[i])]

\* the characters of a sequence of strings, joined by sep
RECURSIVE Join(_, _)
Join(parts, sep) ==
  IF parts = <<>> THEN <<>>
  ELSE IF Len(parts) = 1 THEN parts[1]
  ELSE parts[1] \o sep \o Join(Tail(parts), sep)

(* ------------------------ openphone.mjs -------------------------------- *)
\* number.replace(/[^\d+]/g, '')
Cleaned(number) == SelectSeq(number, LAMBDA c : c \in Digits \cup {"+"})

\* variant: no upper limit on the number of digits
PhoneFormatOkNoMax(cleaned) ==
  /\ Len(cleaned) >= 1 + MinPhoneDigits
  /\ cleaned[1] = "+"
  /\ \A i \in 2..Len(cleaned) : cleaned[i] \in Digits

\* /^\+\d{11,15}$/.test(cleaned)
PhoneFormatOk(cleaned) ==
  /\ Len(cleaned) >= 1 + MinPhoneDigits
  /\ Len(cleaned) <= 1 + MaxPhoneDigits
  /\ cleaned[1] = "+"
  /\ \A i \in 2..Len(cleaned) : cleaned[i] \in Digits

\* validatePhoneNumber: the cleaned number, or a thrown error
validatePhoneNumber(number) ==
  CHOOSE result \in
    {IF PhoneFormatOk(cleaned) THEN [ok |-> TRUE, value |-> cleaned]
                               ELSE [ok |-> FALSE, value |-> <<>>] :
       cleaned \in {Cleaned(number)}} : TRUE

\* the text of the enum values, as characters
EnumChars(v) ==
  CASE v = "heating" -> <<"h","e","a","t","i","n","g">>
    [] v = "cooling" -> <<"c","o","o","l","i","n","g">>
    [] v = "plumbing" -> <<"p","l","u","m","b","i","n","g">>
    [] v = "other" -> <<"o","t","h","e","r">>
    [] v = "low" -> <<"l","o","w">>
    [] v = "medium" -> <<"m","e","d","i","u","m">>
    [] v = "high" -> <<"h","i","g","h">>
    [] v = "emergency" -> <<"e","m","e","r","g","e","n","c","y">>
    [] v = "general" -> <<"g","e","n","e","r","a","l">>
    [] v = "normal" -> <<"n","o","r","m","a","l">>
    [] OTHER -> <<>>

TicketTypes == {"service_request", "not_service_request"}
Urgencies == {"low", "medium", "high", "emergency"}
SystemTypes == {"heating", "cooling", "plumbing", "other"}

\* formatServiceTicketMessage: null for anything but a service request,
\* otherwise the lines of the message (header first, then the sections whose
\* field is truthy)
formatServiceTicketMessage(ticket) ==
  IF ticket.type # "service_request" THEN <<>>
  ELSE
    LET header == << <<"New Service Request", ticket.urgency>>, <<"">> >>
        locParts == IF ticket.location.kind = "object"
                      THEN SelectSeq(<<ticket.location.city, ticket.location.state>>,
                                     Truthy)
                      ELSE <<>>
        locLine == IF locParts # <<>> THEN << <<"Location", locParts>> >> ELSE <<>>
        sysLine == IF ticket.system_type \in SystemTypes
                     THEN << <<"System", ticket.system_type>> >> ELSE <<>>
    IN header \o locLine \o sysLine

(* ----------------------- ticket schema (zod) --------------------------- *)
LocationOk(loc) == loc.kind \in {"object", NullV, UndefV}

\* variant: a schema that accepts any object
ServiceTicketParseLax(raw) == [ok |-> TRUE, value |-> raw]

\* ServiceTicket.parse: the value itself when it conforms, else a ZodError
ServiceTicketParse(raw) ==
  IF /\ raw.type \in TicketTypes
     /\ LocationOk(raw.location)
     /\ raw.urgency \in Urgencies \cup {NullV, UndefV}
     /\ raw.system_type \in SystemTypes \cup {NullV, UndefV}
    THEN [ok |-> TRUE, value |-> raw]
    ELSE [ok |-> FALSE, value |-> raw]

(* ------------------- samples the inputs are drawn from ----------------- *)
\* raw phone numbers: two that validate (with and without separators), one
\* without the leading +, one with too few digits; recipients are drawn from
\* SampleNumbers, the sender is ValidNumberB or ShortNumber
ValidNumberA == <<"+","1"," ","8","0","1","-","5","5","5","-","0","1","0","0">>
ValidNumberB == <<"+","1","8","0","1","5","5","5","0","1","9","9">>
NoPlusNumber == <<"1","8","0","1","5","5","5","0","1","0","0">>
ShortNumber == <<"+","1","8","0","1","5","5","5">>
SampleNumbers == {ValidNumberA, NoPlusNumber, ShortNumber}

\* the last path segment of the listed keys under incoming/utah_mechanical_systems/
SampleTails == << <<"m"," ","1">>, <<"m","_","1">>, <<"Q","7">> >>

\* the instant of the run: date.toISOString().split('T')[0], the month
\* directory and Date.now()
IsoDate == <<"2","0","2","4","-","0","3","-","2","0">>
MonthDir == <<"2","0","2","4","-","0","3">>
EpochMillis == <<"1","7","1","0","9","0","0","0","0","0","0","0","0">>

NoLocation(kind) == [kind |-> kind, city |-> UndefS, state |-> UndefS]
SaltLakeCity == <<"S","a","l","t"," ","L","a","k","e"," ","C","i","t","y">>

\* classifier outputs after JSON.parse (fields that no code path reads are left out)
EmergencyTicket ==
  [type |-> "service_request",
   location |-> [kind |-> "object", city |-> SaltLakeCity, state |-> <<"U","T">>],
   urgency |-> "emergency", system_type |-> "heating"]
NotServiceTicket ==
  [type |-> "not_service_request", location |-> NoLocation(NullV),
   urgency |-> NullV, system_type |-> NullV]
BadUrgencyTicket ==
  [type |-> "service_request", location |-> NoLocation(UndefV),
   urgency |-> "urgent", system_type |-> UndefV]
MissingTypeTicket ==
  [type |-> UndefV, location |-> NoLocation(UndefV),
   urgency |-> UndefV, system_type |-> UndefV]
\* message.content is either text JSON.parse rejects or one of the objects
ClassifierOutputs ==
  {[json |-> FALSE, value |-> MissingTypeTicket]}
  \cup {[json |-> TRUE, value |-> t] :
          t \in {EmergencyTicket, NotServiceTicket, BadUrgencyTicket, MissingTypeTicket}}

(* ------------------------- object store -------------------------------- *)
IncomingKey(tail) ==
  [folder |-> "incoming", category |-> "", month |-> <<>>, name |-> tail]
\* sourceKey.split('/').pop()
KeyTail(sourceKey) == sourceKey.name

HasKey(st, key) == \E o \in st : o.key = key
\* a put replaces whatever the key held
PutObject(st, key, body) == {o \in st : o.key # key} \cup {[key |-> key, body |-> body]}
RemoveKey(st, key) == {o \in st : o.key # key}
BodyAt(st, key) == (CHOOSE o \in st : o.key = key).body

(* ----------------------- moveToProcessed names ------------------------- *)
\* .replace(/[^a-z0-9-_\.]/g, '_')
SafeChar(c) ==
  IF c \in Range(LowerLetters) \cup Digits \cup {"-", "_", "."} THEN c ELSE "_"
\* .replace(/_+/g, '_')
RECURSIVE CollapseUnderscores(_)
CollapseUnderscores(s) ==
  IF Len(s) <= 1 THEN s
  ELSE IF s[1] = "_" /\ s[2] = "_" THEN CollapseUnderscores(Tail(s))
  ELSE <<s[1]>> \o CollapseUnderscores(Tail(s))

\* filename.toLowerCase().replace(...).replace(...): each stage is computed
\* once and handed on as a value
Slug(filename) ==
  CHOOSE collapsed \in
    {CollapseUnderscores(replaced) :
       replaced \in {[i \in DOMAIN lower |-> SafeChar(lower[i])] :
                       lower \in {ToLowerCase(name) : name \in {filename}}}} : TRUE

\* ticket.location ? [city, state].filter(Boolean).join('_') : 'unknown_location'
LocationPart(ticket) ==
  IF ticket.location.kind = "object"
    THEN Join(SelectSeq(<<ticket.location.city, ticket.location.state>>, Truthy), <<"_">>)
    ELSE <<"u","n","k","n","o","w","n","_","l","o","c","a","t","i","o","n">>
\* ticket.system_type || 'general'
SystemPart(ticket) ==
  IF ticket.system_type \in {NullV, UndefV} THEN EnumChars("general")
  ELSE EnumChars(ticket.system_type)
\* ticket.urgency || 'normal'
UrgencyPart(ticket) ==
  IF ticket.urgency \in {NullV, UndefV} THEN EnumChars("normal")
  ELSE EnumChars(ticket.urgency)

\* filename of moveToProcessed: the parts are computed once, joined, slugged
Filename(sourceKey, isServiceRequest, ticket) ==
  CHOOSE filename \in
    {Slug(Join(parts, <<"_">>)) :
       parts \in {IF isServiceRequest
                    THEN <<IsoDate, LocationPart(ticket), SystemPart(ticket),
                           UrgencyPart(ticket), KeyTail(sourceKey)>>
                    ELSE <<IsoDate, KeyTail(sourceKey)>>}} : TRUE

\* variant: the two category names swapped
RequestTypeSwapped(isServiceRequest) ==
  IF isServiceRequest THEN "non_service_requests" ELSE "service_requests"

RequestType(isServiceRequest) ==
  IF isServiceRequest THEN "service_requests" ELSE "non_service_requests"

\* newKey of moveToProcessed
NewKey(sourceKey, isServiceRequest, ticket) ==
  [folder |-> "processed", category |-> RequestType(isServiceRequest),
   month |-> MonthDir, name |-> Filename(sourceKey, isServiceRequest, ticket)]

\* variant: the fallback copy is written next to the processed files
ErrorKeyUnderProcessed(sourceKey) ==
  [folder |-> "processed", category |-> "", month |-> <<>>,
   name |-> KeyTail(sourceKey) \o <<"_">> \o EpochMillis]

\* errorKey of moveToProcessed
ErrorKey(sourceKey) ==
  [folder |-> "errors", category |-> "", month |-> <<>>,
   name |-> KeyTail(sourceKey) \o <<"_">> \o EpochMillis]

(* --------------------------- sendTextMessage --------------------------- *)
Err(msg, at) == [msg |-> msg, at |-> at]
NoError == Err("", 0)

\* what fetch gives back: a response (ok, status, body, and whether the body
\* is JSON text) or a rejection
Accepted ==
  [kind |-> "response", ok |-> TRUE, status |-> 202, json |-> TRUE, body |-> "message"]
AcceptedNotJson ==
  [kind |-> "response", ok |-> TRUE, status |-> 200, json |-> FALSE, body |-> "<html>"]
RateLimited ==
  [kind |-> "response", ok |-> FALSE, status |-> 429, json |-> TRUE, body |-> "rate limit"]
BadGateway ==
  [kind |-> "response", ok |-> FALSE, status |-> 502, json |-> FALSE, body |-> "<html>"]
FetchRejected ==
  [kind |-> "rejected", ok |-> FALSE, status |-> 0, json |-> FALSE, body |-> ""]
TransportResponses == {Accepted, AcceptedNotJson, RateLimited, BadGateway, FetchRejected}
\* the responses a run's sends are answered with
SendResponses == {Accepted, RateLimited}

\* response.json().catch(() => null)
ErrorData(response) == IF response.json THEN response.body ELSE NullV

SendResult(ok, requests, error, status, body) ==
  [ok |-> ok, requests |-> requests, error |-> error, status |-> status, body |-> body]

\* variant: the request is issued before the numbers are validated
sendTextMessageUnvalidated(message, toNumber, from, response, at) ==
  IF message = <<>>
    THEN SendResult(FALSE, 0, Err("Message is required and must be a string", at), 0, "")
  ELSE IF ~validatePhoneNumber(toNumber).ok \/ ~validatePhoneNumber(from).ok
    THEN SendResult(FALSE, 1, Err("Invalid phone number format", at), 0, "")
  ELSE IF response.kind = "rejected"
    THEN SendResult(FALSE, 1, Err("fetch failed", at), 0, "")
  ELSE IF ~response.ok
    THEN SendResult(FALSE, 1, Err("OpenPhone API error", at),
                    response.status, ErrorData(response))
  ELSE IF ~response.json
    THEN SendResult(FALSE, 1, Err("Unexpected token in JSON", at), 0, "")
  ELSE SendResult(TRUE, 1, NoError, 0, "")

\* one call of sendTextMessage: whether it returned, how many requests it
\* issued to the SMS API, the error it threw, and the status and error data
\* the message of an API error is built from
sendTextMessage(message, toNumber, from, response, at) ==
  IF message = <<>>
    THEN SendResult(FALSE, 0, Err("Message is required and must be a string", at), 0, "")
  ELSE IF ~validatePhoneNumber(toNumber).ok \/ ~validatePhoneNumber(from).ok
    THEN SendResult(FALSE, 0, Err("Invalid phone number format", at), 0, "")
  ELSE IF response.kind = "rejected"
    THEN SendResult(FALSE, 1, Err("fetch failed", at), 0, "")
  ELSE IF ~response.ok
    THEN SendResult(FALSE, 1, Err("OpenPhone API error", at),
                    response.status, ErrorData(response))
  ELSE IF ~response.json
    THEN SendResult(FALSE, 1, Err("Unexpected token in JSON", at), 0, "")
  ELSE SendResult(TRUE, 1, NoError, 0, "")

(* ---------------------------- retryOperation --------------------------- *)
\* variant: the loop gives up one attempt early
retryOperationShort(i, ok, maxRetries) ==
  IF i >= maxRetries - 1 /\ maxRetries > 1 THEN [next |-> "throw", sleep |-> <<>>]
  ELSE IF ok THEN [next |-> "return", sleep |-> <<>>]
  ELSE IF i < maxRetries - 1
    THEN [next |-> "retry", sleep |-> <<RETRY_DELAY * 2^i>>]
  ELSE [next |-> "throw", sleep |-> <<>>]

\* variant: the loop does not return on success but goes round until the
\* last attempt
retryOperationNoReturn(i, ok, maxRetries) ==
  IF i < maxRetries - 1 THEN [next |-> "retry", sleep |-> <<>>]
  ELSE IF ok THEN [next |-> "return", sleep |-> <<>>]
  ELSE [next |-> "throw", sleep |-> <<>>]

\* variant: the loop runs for i <= maxRetries, one attempt more
retryOperationOneMore(i, ok, maxRetries) ==
  IF ok THEN [next |-> "return", sleep |-> <<>>]
  ELSE IF i < maxRetries
    THEN [next |-> "retry", sleep |-> <<RETRY_DELAY * 2^i>>]
  ELSE [next |-> "throw", sleep |-> <<>>]

\* variant: the loop sleeps after every failed attempt, the last one included
retryOperationSleepsLast(i, ok, maxRetries) ==
  IF ok THEN [next |-> "return", sleep |-> <<>>]
  ELSE IF i < maxRetries - 1
    THEN [next |-> "retry", sleep |-> <<RETRY_DELAY * 2^i>>]
  ELSE [next |-> "throw", sleep |-> <<RETRY_DELAY * 2^i>>]

\* what iteration i (from 0) of the loop does once operation() has settled:
\* return its value, sleep and go round again, or leave the loop and throw
\* lastError
retryOperation(i, ok, maxRetries) ==
  IF ok THEN [next |-> "return", sleep |-> <<>>]
  ELSE IF i < maxRetries - 1
    THEN [next |-> "retry", sleep |-> <<RETRY_DELAY * 2^i>>]
  ELSE [next |-> "throw", sleep |-> <<>>]

(* ------------------------------- state --------------------------------- *)
VARIABLES
  hpc,                   \* handler: "off" | "list" | "running" | "returned"
  response,              \* what handler returned
  notificationNumbers,   \* DEFAULT_NOTIFICATION_NUMBERS / the third argument
  fromNumber,            \* OPENPHONE_FROM_NUMBER
  store,                 \* the bucket: a set of [key, body]
  pc,                    \* per run: the await the run is suspended at
  emailContent,          \* per run: "" | "malformed" | "mime"
  sourceKey,             \* per run
  processingStatus,      \* per run
  validatedData,         \* per run
  classifier,            \* per run: calls made and sleeps taken by the retry loop
  send,                  \* per run, per recipient: the delivery promise
  messageDeliveryStatus, \* per run
  moveError,             \* per run: the error moveToProcessed caught
  storeLog,              \* per run: the store commands issued, in order
  records,               \* per run: the metrics lines logged
  outcome,               \* per run: how parseEmail settled
  results,               \* per run: the entry of the handler's results array
  retry,                 \* retryOperation called on its own: the loop's state
  probe                  \* a pure function applied to one input: input and output

runVars == <<hpc, response, notificationNumbers, fromNumber, store, pc, emailContent,
             sourceKey, processingStatus, validatedData, classifier, send,
             messageDeliveryStatus, moveError, storeLog, records, outcome, results>>
vars == <<runVars, retry, probe>>

Runs == 1..MaxKeys
Recipients == DOMAIN notificationNumbers

EmptyKey == [folder |-> "", category |-> "", month |-> <<>>, name |-> <<>>]
NoTicket == MissingTypeTicket
NoResponse == [statusCode |-> 0, successful |-> 0, failed |-> 0,
               failedResults |-> <<>>, error |-> ""]
NoOutcome == [kind |-> "none", error |-> NoError, processed_location |-> EmptyKey,
              message_delivery_status |-> <<>>]
NoResult == [status |-> "none", key |-> EmptyKey, error |-> ""]
\* the values a delivery promise resolves to
DeliveryUndefined ==
  [kind |-> "undefined", number |-> <<>>, success |-> FALSE, error |-> ""]
IdleSend == [state |-> "idle", calls |-> 0, successes |-> 0, requests |-> 0,
             sleeps |-> <<>>, delivered |-> FALSE, value |-> DeliveryUndefined]
DeliveryFailed(number, error) ==
  [kind |-> "object", number |-> number, success |-> FALSE, error |-> error.msg]

RECURSIVE SeqsUpTo(_, _)
SeqsUpTo(S, n) ==
  IF n = 0 THEN {<<>>}
  ELSE SeqsUpTo(S, n - 1) \cup
       {Append(q, x) : q \in {p \in SeqsUpTo(S, n - 1) : Len(p) = n - 1}, x \in S}

\* retryOperation not called / no function applied
IdleRetry ==
  [state |-> "idle", maxRetries |-> 0, plan |-> 0, i |-> 0, calls |-> 0,
   sleeps |-> <<>>, errors |-> <<>>, lastError |-> NoError, value |-> "",
   thrown |-> NoError]
IdleProbe == [fn |-> "", applied |-> FALSE, arg |-> <<>>, out |-> <<>>]

InitRuns ==
  /\ retry = IdleRetry
  /\ probe = IdleProbe
  /\ processingStatus = [e \in Runs |-> "none"]
  /\ validatedData = [e \in Runs |-> NoTicket]
  /\ classifier = [e \in Runs |-> [calls |-> 0, sleeps |-> <<>>]]
  /\ send = [e \in Runs |-> [r \in Recipients |-> IdleSend]]
  /\ messageDeliveryStatus = [e \in Runs |-> <<>>]
  /\ moveError = [e \in Runs |-> NoError]
  /\ storeLog = [e \in Runs |-> <<>>]
  /\ records = [e \in Runs |-> <<>>]
  /\ outcome = [e \in Runs |-> NoOutcome]
  /\ results = [e \in Runs |-> NoResult]
  /\ response = NoResponse

\* one call of parseEmail (as test.mjs makes it), about to start
Init ==
  /\ hpc = "off"
  /\ notificationNumbers \in SeqsUpTo(SampleNumbers, MaxRecipients)
  /\ fromNumber \in {ValidNumberB, ShortNumber}
  /\ store = {[key |-> IncomingKey(SampleTails[1]), body |-> SampleTails[1]]}
  /\ pc = [e \in Runs |-> IF e = 1 THEN "call" ELSE "idle"]
  /\ emailContent \in {[e \in Runs |-> IF e = 1 THEN c ELSE ""] :
                         c \in {"", "malformed", "mime"}}
  /\ sourceKey \in {[e \in Runs |-> IF e = 1 THEN k ELSE EmptyKey] :
                      k \in {EmptyKey, IncomingKey(SampleTails[1])}}
  /\ InitRuns

(* ------------------------ how a run settles ---------------------------- *)
\* the line console.error logs in the catch block of parseEmail
ErrorRecord(e, err, status) ==
  [event |-> "email_processing_error",
   fields |-> {"event", "error", "status", "processing_time_ms", "source_key"},
   status |-> status, type |-> UndefV, message_delivery_status |-> <<>>,
   source_key |-> sourceKey[e], destination_key |-> EmptyKey, error |-> err.msg]

\* the line console.log logs before parseEmail returns
ProcessedRecord(e, newLocation) ==
  [event |-> "email_processed",
   fields |-> {"event", "processing_time_ms", "status", "type",
               "message_delivery_status", "source_key", "destination_key"},
   status |-> "completed", type |-> validatedData[e].type,
   message_delivery_status |-> messageDeliveryStatus[e],
   source_key |-> sourceKey[e], destination_key |-> newLocation, error |-> ""]

\* parseEmail's catch block: log, rethrow; under the handler the callback's
\* catch turns the rejection into an error entry
Throw(e, err, status) ==
  /\ records' = [records EXCEPT ![e] = Append(@, ErrorRecord(e, err, status))]
  /\ outcome' = [outcome EXCEPT ![e] = [NoOutcome EXCEPT !.kind = "thrown", !.error = err]]
  /\ results' = IF hpc = "running"
                  THEN [results EXCEPT ![e] =
                          [status |-> "error", key |-> sourceKey[e], error |-> err.msg]]
                  ELSE results
  /\ pc' = [pc EXCEPT ![e] = "done"]

\* parseEmail returns its result; under the handler the callback returns a
\* success entry
Return(e, newLocation) ==
  /\ records' = [records EXCEPT ![e] = Append(@, ProcessedRecord(e, newLocation))]
  /\ outcome' = [outcome EXCEPT ![e] =
                   [kind |-> "returned", error |-> NoError,
                    processed_location |-> newLocation,
                    message_delivery_status |-> messageDeliveryStatus[e]]]
  /\ results' = IF hpc = "running"
                  THEN [results EXCEPT ![e] =
                          [status |-> "success", key |-> sourceKey[e], error |-> ""]]
                  ELSE results
  /\ pc' = [pc EXCEPT ![e] = "done"]

\* the run suspends at its next await
Continue(e, next) ==
  /\ pc' = [pc EXCEPT ![e] = next]
  /\ UNCHANGED <<records, outcome, results>>

\* The loop counter of retryOperation dies with the call.  Under Spec its last
\* value (with the requests made and the sleeps taken) is kept as a history of
\* the finished loop; under the handler, where several runs interleave, a
\* finished loop leaves nothing behind.
KeepsHistory == hpc = "off"
LoopRecord(step, rec, zero) == IF step.next = "retry" \/ KeepsHistory THEN rec ELSE zero

(* ----------------------------- parseEmail ------------------------------ *)
\* variant: the source key is not checked
ParseEmailEntryNoKeyCheck(e, content, key) ==
  /\ processingStatus' = [processingStatus EXCEPT ![e] = "started"]
  /\ IF content = "" THEN Throw(e, Err("Email content is required", 0), "started")
     ELSE Continue(e, "simpleParser")

\* parseEmail up to its first await: the input checks
ParseEmailEntry(e, content, key) ==
  /\ processingStatus' = [processingStatus EXCEPT ![e] = "started"]
  /\ IF content = "" THEN Throw(e, Err("Email content is required", 0), "started")
     ELSE IF key = EmptyKey THEN Throw(e, Err("Source key is required", 0), "started")
     ELSE Continue(e, "simpleParser")

ParseEmailCall(e) ==
  /\ pc[e] = "call"
  /\ ParseEmailEntry(e, emailContent[e], sourceKey[e])
  /\ UNCHANGED <<retry, probe, hpc, response, notificationNumbers, fromNumber, store, emailContent,
                 sourceKey, validatedData, classifier, send, messageDeliveryStatus,
                 moveError, storeLog>>

\* await simpleParser(emailContent)
SimpleParser(e) ==
  /\ pc[e] = "simpleParser"
  /\ IF emailContent[e] = "mime"
       THEN /\ processingStatus' = [processingStatus EXCEPT ![e] = "parsed"]
            /\ Continue(e, "classify")
       ELSE /\ Throw(e, Err("MIME parse error", 0), processingStatus[e])
            /\ UNCHANGED processingStatus
  /\ UNCHANGED <<retry, probe, hpc, response, notificationNumbers, fromNumber, store, emailContent,
                 sourceKey, validatedData, classifier, send, messageDeliveryStatus,
                 moveError, storeLog>>

\* variant: the notification block runs for every ticket
ShouldNotifyAlways(ticket) == TRUE

\* if (validatedData.type === 'service_request') { ... if (message) {
ShouldNotify(ticket) ==
  ticket.type = "service_request" /\ formatServiceTicketMessage(ticket) # <<>>

\* the code between the classifier's answer and the next await
Analyze(e, out) ==
  IF ~out.json
    THEN /\ Throw(e, Err("Unexpected token in JSON", 0), processingStatus[e])
         /\ UNCHANGED <<processingStatus, validatedData, send>>
  ELSE IF ~ServiceTicketParse(out.value).ok
    THEN /\ Throw(e, Err("ZodError", 0), processingStatus[e])
         /\ UNCHANGED <<processingStatus, validatedData, send>>
  ELSE LET ticket == ServiceTicketParse(out.value).value IN
    /\ validatedData' = [validatedData EXCEPT ![e] = ticket]
    /\ processingStatus' = [processingStatus EXCEPT ![e] = "analyzed"]
    /\ IF ShouldNotify(ticket)
         THEN /\ send' = [send EXCEPT ![e] =
                            [r \in Recipients |-> [IdleSend EXCEPT !.state = "pending"]]]
              /\ Continue(e, "notify")
         ELSE /\ Continue(e, "copy")
              /\ UNCHANGED send

\* one settled call of client.chat.completions.create under retryOperation
Classify(e) ==
  /\ pc[e] = "classify"
  /\ \E ok \in BOOLEAN :
       LET i == classifier[e].calls
           step == retryOperation(i, ok, MAX_RETRIES)
       IN /\ classifier' = [classifier EXCEPT ![e] =
                              LoopRecord(step,
                                         [calls |-> i + 1, sleeps |-> @.sleeps \o step.sleep],
                                         [calls |-> 0, sleeps |-> <<>>])]
          /\ CASE step.next = "return" -> \E out \in ClassifierOutputs : Analyze(e, out)
               [] step.next = "retry" ->
                    /\ Continue(e, "classify")
                    /\ UNCHANGED <<processingStatus, validatedData, send>>
               [] step.next = "throw" ->
                    /\ Throw(e, Err("classifier call failed", i + 1), processingStatus[e])
                    /\ UNCHANGED <<processingStatus, validatedData, send>>
  /\ UNCHANGED <<retry, probe, hpc, response, notificationNumbers, fromNumber, store, emailContent,
                 sourceKey, messageDeliveryStatus, moveError, storeLog>>

\* what the callback of notificationNumbers.map resolves to once the retry
\* loop around sendTextMessage has returned or thrown
DeliveryValue(number, step, error) ==
  IF step.next = "return" THEN DeliveryUndefined ELSE DeliveryFailed(number, error)

\* variant: no try/catch in the callback, so exhausted retries reject the promise
DeliveryStateUncaught(step) ==
  CASE step.next = "retry" -> "pending"
    [] step.next = "return" -> "resolved"
    [] OTHER -> "rejected"

\* the state of the callback's promise: the try/catch around the retry loop
\* turns a throw into a value, so the promise never rejects
DeliveryState(step) == IF step.next = "retry" THEN "pending" ELSE "resolved"

\* one settled call of sendTextMessage(message, number) under retryOperation
SendAttempt(e, r) ==
  /\ pc[e] = "notify"
  /\ send[e][r].state = "pending"
  /\ \E resp \in SendResponses :
     \E res \in {sendTextMessage(formatServiceTicketMessage(validatedData[e]),
                                 notificationNumbers[r], fromNumber, resp,
                                 send[e][r].calls + 1)} :
     \E step \in {retryOperation(send[e][r].calls, res.ok, MAX_RETRIES)} :
       LET i == send[e][r].calls
           number == notificationNumbers[r]
           loop == LoopRecord(step,
                              [calls |-> i + 1,
                               successes |-> send[e][r].successes
                                               + (IF res.ok THEN 1 ELSE 0),
                               requests |-> send[e][r].requests + res.requests,
                               sleeps |-> send[e][r].sleeps \o step.sleep],
                              [calls |-> 0, successes |-> 0, requests |-> 0,
                               sleeps |-> <<>>])
       IN send' = [send EXCEPT ![e][r] =
                     [state |-> DeliveryState(step),
                      calls |-> loop.calls,
                      successes |-> loop.successes,
                      delivered |-> step.next = "return",
                      requests |-> loop.requests,
                      sleeps |-> loop.sleeps,
                      value |-> IF step.next = "retry" THEN @.value
                                ELSE DeliveryValue(number, step, res.error)]]
  /\ UNCHANGED <<retry, probe, hpc, response, notificationNumbers, fromNumber, store, pc, emailContent,
                 sourceKey, processingStatus, validatedData, classifier,
                 messageDeliveryStatus, moveError, storeLog, records, outcome, results>>

\* variant: the join never lets go
JoinedNever(e) == FALSE

\* variant: the join lets go at the first settled promise (Promise.race)
JoinedAny(e) == \E r \in Recipients : send[e][r].state = "resolved"

\* which delivery promises Promise.all waits for
Joined(e) == \A r \in Recipients : send[e][r].state = "resolved"

Rejected(e) == {r \in Recipients : send[e][r].state = "rejected"}

\* await Promise.all(deliveryPromises): it resolves to the promises' values
\* once all have resolved, and rejects as soon as one rejects; then the call
\* of moveToProcessed
NotifyJoin(e) ==
  /\ pc[e] = "notify"
  /\ Joined(e) \/ Rejected(e) # {}
  /\ IF Rejected(e) # {}
       THEN /\ \E r \in Rejected(e) :
                 Throw(e, Err(send[e][r].value.error, send[e][r].calls),
                       processingStatus[e])
            /\ UNCHANGED messageDeliveryStatus
       ELSE /\ messageDeliveryStatus' =
                 [messageDeliveryStatus EXCEPT ![e] =
                    [r \in Recipients |-> send[e][r].value]]
            /\ Continue(e, "copy")
  /\ UNCHANGED <<retry, probe, hpc, response, notificationNumbers, fromNumber, store, emailContent,
                 sourceKey, processingStatus, validatedData, classifier, send,
                 moveError, storeLog>>

(* --------------------------- moveToProcessed --------------------------- *)
IsServiceRequest(e) == validatedData[e].type = "service_request"
DestinationKey(e) == NewKey(sourceKey[e], IsServiceRequest(e), validatedData[e])

LogCommand(e, op, key) ==
  storeLog' = [storeLog EXCEPT ![e] = Append(@, [op |-> op, key |-> key])]

\* a copy can only succeed while its source exists
CopyOutcomes(src) == {ok \in BOOLEAN : ok => HasKey(store, src)}

\* variant: the delete is issued whether or not the copy succeeded
AfterCopyAlwaysDelete(ok) == "delete"

\* what moveToProcessed does once the first copy has settled
AfterCopy(ok) == IF ok THEN "delete" ELSE "errorCopy"

\* await s3Client.send(new CopyObjectCommand(... Key: newKey))
CopyObject(e) ==
  /\ pc[e] = "copy"
  /\ \E newKey \in {DestinationKey(e)} : \E ok \in CopyOutcomes(sourceKey[e]) :
       /\ LogCommand(e, "copy", newKey)
       /\ store' = IF ok THEN PutObject(store, newKey, BodyAt(store, sourceKey[e]))
                   ELSE store
       /\ moveError' = IF ok THEN moveError
                       ELSE [moveError EXCEPT ![e] = Err("copy failed", 0)]
       /\ Continue(e, AfterCopy(ok))
  /\ UNCHANGED <<retry, probe, hpc, response, notificationNumbers, fromNumber, emailContent, sourceKey,
                 processingStatus, validatedData, classifier, send,
                 messageDeliveryStatus>>

\* await s3Client.send(new DeleteObjectCommand(... Key: sourceKey)), and on
\* success the rest of parseEmail
DeleteObject(e) ==
  /\ pc[e] = "delete"
  /\ LogCommand(e, "delete", sourceKey[e])
  /\ \E ok \in BOOLEAN :
       IF ok
         THEN /\ store' = RemoveKey(store, sourceKey[e])
              /\ processingStatus' = [processingStatus EXCEPT ![e] = "completed"]
              /\ \E newKey \in {DestinationKey(e)} : Return(e, newKey)
              /\ UNCHANGED moveError
         ELSE /\ moveError' = [moveError EXCEPT ![e] = Err("delete failed", 0)]
              /\ Continue(e, "errorCopy")
              /\ UNCHANGED <<store, processingStatus>>
  /\ UNCHANGED <<retry, probe, hpc, response, notificationNumbers, fromNumber, emailContent, sourceKey,
                 validatedData, classifier, send, messageDeliveryStatus>>

\* the error moveToProcessed rejects with once the copy to errors/ has settled
MoveFailure(e, ok) == IF ok THEN moveError[e] ELSE Err("error copy failed", 0)

\* the catch block of moveToProcessed: await the copy to errorKey, throw
ErrorCopy(e) ==
  /\ pc[e] = "errorCopy"
  /\ LogCommand(e, "copy", ErrorKey(sourceKey[e]))
  /\ \E ok \in CopyOutcomes(sourceKey[e]) :
       /\ store' = IF ok
                     THEN PutObject(store, ErrorKey(sourceKey[e]),
                                    BodyAt(store, sourceKey[e]))
                     ELSE store
       /\ Throw(e, MoveFailure(e, ok), processingStatus[e])
  /\ UNCHANGED <<retry, probe, hpc, response, notificationNumbers, fromNumber, emailContent, sourceKey,
                 processingStatus, validatedData, classifier, send,
                 messageDeliveryStatus, moveError>>

RunStep(e) ==
  \/ SimpleParser(e)
  \/ Classify(e)
  \/ \E r \in Recipients : SendAttempt(e, r)
  \/ NotifyJoin(e)
  \/ CopyObject(e)
  \/ DeleteObject(e)
  \/ ErrorCopy(e)

Next == \E e \in Runs : ParseEmailCall(e) \/ RunStep(e)

Spec == Init /\ [][Next]_vars

(* ------------------------------ handler -------------------------------- *)
\* the keys under the prefix, in listing order
Listed(n) == [i \in 1..n |-> IncomingKey(SampleTails[i])]
Min(a, b) == IF a < b THEN a ELSE b

\* the handler is invoked on a bucket holding up to MaxKeys pending emails
InitBatch ==
  /\ hpc = "list"
  /\ notificationNumbers = <<ValidNumberA>>
  /\ fromNumber = ValidNumberB
  /\ \E n \in 0..Min(MaxKeys, Len(SampleTails)) :
       store = {[key |-> Listed(n)[i], body |-> SampleTails[i]] : i \in 1..n}
  /\ pc = [e \in Runs |-> "idle"]
  /\ emailContent = [e \in Runs |-> ""]
  /\ sourceKey = [e \in Runs |-> EmptyKey]
  /\ InitRuns

IncomingCount == Cardinality({o \in store : o.key.folder = "incoming"})

\* response.Contents of a listing that succeeded: the SDK leaves Contents out
\* when nothing matches the prefix; a stand-in for the store may hand back []
ContentsOptions ==
  IF IncomingCount = 0
    THEN {[defined |-> FALSE, keys |-> <<>>], [defined |-> TRUE, keys |-> <<>>]}
    ELSE {[defined |-> TRUE, keys |-> Listed(IncomingCount)]}

ServerError(msg) == [NoResponse EXCEPT !.statusCode = 500, !.error = msg]

\* await client.send(new ListObjectsV2Command(params)) and the map over
\* response.Contents, each callback up to its GetObject
ListObjects ==
  /\ hpc = "list"
  /\ \/ /\ response' = ServerError("list failed")
        /\ hpc' = "returned"
        /\ UNCHANGED <<pc, sourceKey>>
     \/ \E contents \in ContentsOptions :
          IF ~contents.defined
            THEN /\ response' = ServerError("Cannot read properties of undefined")
                 /\ hpc' = "returned"
                 /\ UNCHANGED <<pc, sourceKey>>
            ELSE /\ hpc' = "running"
                 /\ pc' = [e \in Runs |-> IF e <= Len(contents.keys) THEN "fetch" ELSE "idle"]
                 /\ sourceKey' = [e \in Runs |-> IF e <= Len(contents.keys)
                                                  THEN contents.keys[e] ELSE EmptyKey]
                 /\ UNCHANGED response
  /\ UNCHANGED <<retry, probe, notificationNumbers, fromNumber, store, emailContent, processingStatus,
                 validatedData, classifier, send, messageDeliveryStatus, moveError,
                 storeLog, records, outcome, results>>

\* await client.send(new GetObjectCommand(...)), transformToString, and the
\* call of parseEmail up to its first await
GetObject(e) ==
  /\ pc[e] = "fetch"
  /\ \/ /\ results' = [results EXCEPT ![e] =
                         [status |-> "error", key |-> sourceKey[e], error |-> "get failed"]]
        /\ pc' = [pc EXCEPT ![e] = "done"]
        /\ UNCHANGED <<emailContent, processingStatus, records, outcome>>
     \/ /\ HasKey(store, sourceKey[e])
        /\ \E content \in {"", "malformed", "mime"} :
             /\ emailContent' = [emailContent EXCEPT ![e] = content]
             /\ ParseEmailEntry(e, content, sourceKey[e])
  /\ UNCHANGED <<retry, probe, hpc, response, notificationNumbers, fromNumber, store, sourceKey,
                 validatedData, classifier, send, messageDeliveryStatus, moveError,
                 storeLog>>

ListedRuns == {e \in Runs : pc[e] # "idle"}
Successful == {e \in ListedRuns : results[e].status = "success"}
Failed == {e \in ListedRuns : results[e].status = "error"}
SetToSeq(S) == [i \in 1..Cardinality(S) |->
                  CHOOSE e \in S : Cardinality({x \in S : x < e}) = i - 1]

\* variant: the handler stops waiting at the first settled callback
BatchSettledAny == \E e \in ListedRuns : results[e].status # "none"

\* Promise.all over the callbacks' promises resolves once each has settled
BatchSettled == \A e \in ListedRuns : results[e].status # "none"

\* await Promise.all(...) resolves; filter, count, return 200
HandlerReturn ==
  /\ hpc = "running"
  /\ BatchSettled
  /\ response' = [statusCode |-> 200,
                  successful |-> Cardinality(Successful),
                  failed |-> Cardinality(Failed),
                  failedResults |-> [i \in 1..Cardinality(Failed) |->
                                       [key |-> results[SetToSeq(Failed)[i]].key,
                                        error |-> results[SetToSeq(Failed)[i]].error]],
                  error |-> ""]
  /\ hpc' = "returned"
  /\ UNCHANGED <<retry, probe, notificationNumbers, fromNumber, store, pc, emailContent, sourceKey,
                 processingStatus, validatedData, classifier, send,
                 messageDeliveryStatus, moveError, storeLog, records, outcome, results>>

NextBatch ==
  \/ ListObjects
  \/ \E e \in Runs : GetObject(e) \/ RunStep(e)
  \/ HandlerReturn

SpecBatch == InitBatch /\ [][NextBatch]_vars

(* ----------------------- retryOperation on its own --------------------- *)
\* most attempts retryOperation is called with
MaxAttempts == 4

\* what the operation's failures say
ErrorKinds == {"timeout", "rate limited", "server error"}

\* variant: the first error caught is kept, later ones are dropped
CatchFirstError(lastError, error) == IF lastError = NoError THEN error ELSE lastError

\* the catch block of the loop: lastError = error
CatchError(lastError, error) == error

\* retryOperation(operation, n) is called with an operation that fails on its
\* first plan calls and succeeds afterwards (plan = n: it fails throughout)
InitRetry ==
  /\ hpc = "off"
  /\ notificationNumbers = <<>>
  /\ fromNumber = ValidNumberB
  /\ store = {}
  /\ pc = [e \in Runs |-> "idle"]
  /\ emailContent = [e \in Runs |-> ""]
  /\ sourceKey = [e \in Runs |-> EmptyKey]
  /\ processingStatus = [e \in Runs |-> "none"]
  /\ validatedData = [e \in Runs |-> NoTicket]
  /\ classifier = [e \in Runs |-> [calls |-> 0, sleeps |-> <<>>]]
  /\ send = [e \in Runs |-> <<>>]
  /\ messageDeliveryStatus = [e \in Runs |-> <<>>]
  /\ moveError = [e \in Runs |-> NoError]
  /\ storeLog = [e \in Runs |-> <<>>]
  /\ records = [e \in Runs |-> <<>>]
  /\ outcome = [e \in Runs |-> NoOutcome]
  /\ results = [e \in Runs |-> NoResult]
  /\ response = NoResponse
  /\ probe = IdleProbe
  /\ \E n \in 1..MaxAttempts : \E k \in 0..n :
       retry = [IdleRetry EXCEPT !.state = "loop", !.maxRetries = n, !.plan = k]

\* one pass of the for loop: await operation(), then return, or catch, sleep
\* and go round, or fall out of the loop and throw lastError
RetryAttempt ==
  /\ retry.state = "loop"
  /\ \E kind \in ErrorKinds :
       LET i == retry.i
           ok == retry.calls >= retry.plan
           error == Err(kind, i + 1)
           step == retryOperation(i, ok, retry.maxRetries)
           last == IF ok THEN retry.lastError ELSE CatchError(retry.lastError, error)
       IN retry' = [retry EXCEPT
                      !.calls = @ + 1,
                      !.i = IF step.next = "retry" THEN i + 1 ELSE i,
                      !.sleeps = @ \o step.sleep,
                      !.errors = IF ok THEN @ ELSE Append(@, error),
                      !.lastError = last,
                      !.state = CASE step.next = "return" -> "returned"
                                  [] step.next = "retry" -> "loop"
                                  [] OTHER -> "thrown",
                      !.value = IF step.next = "return" THEN "done" ELSE @,
                      !.thrown = IF step.next = "throw" THEN last ELSE @]
  /\ UNCHANGED <<runVars, probe>>

NextRetry == RetryAttempt

SpecRetry == InitRetry /\ [][NextRetry]_vars

(* ------------------- the pure functions on their own ------------------- *)
\* how far below MinPhoneDigits and above MaxPhoneDigits the digit counts of
\* the phone inputs go
PhoneSlack == 1

DigitCycle == <<"1","8","0","1","5","5","5","0","1","0">>
PhoneDigits(n) == [i \in 1..n |-> DigitCycle[((i - 1) % Len(DigitCycle)) + 1]]

\* the digits in groups of three with sep between the groups
RECURSIVE Grouped(_, _)
Grouped(ds, sep) ==
  IF Len(ds) <= 3 THEN ds
  ELSE SubSeq(ds, 1, 3) \o sep \o Grouped(SubSeq(ds, 4, Len(ds)), sep)

PhoneLeads == {<<>>, <<"+">>, <<" ","+">>, <<"(","+">>, <<"+","+">>, <<"1","+">>,
               <<"+"," ">>}
PhoneSeparators == {<<>>, <<"-">>, <<" ">>, <<")"," ">>}
PhoneTails == {<<>>, <<"+">>, <<".">>}
\* raw numbers validatePhoneNumber is called with
PhoneInputs ==
  {lead \o Grouped(PhoneDigits(n), sep) \o tail :
     lead \in PhoneLeads, sep \in PhoneSeparators, tail \in PhoneTails,
     n \in (MinPhoneDigits - PhoneSlack)..(MaxPhoneDigits + PhoneSlack)}

\* objects JSON.parse can hand to ServiceTicket.parse
LocationSamples ==
  {NoLocation(NullV), NoLocation(UndefV)}
  \cup {[kind |-> "object", city |-> c, state |-> st] :
          c \in {SaltLakeCity, NullS, UndefS}, st \in {<<"U","T">>, NullS, UndefS}}
RawTickets ==
  {[type |-> t, location |-> l, urgency |-> u, system_type |-> y] :
     t \in TicketTypes \cup {UndefV, "spam"},
     l \in LocationSamples,
     u \in {"emergency", "low", "urgent", NullV, UndefV},
     y \in {"heating", "furnace", NullV, UndefV}}
\* validated service requests moveToProcessed names a file for
ServiceRequests ==
  {t \in RawTickets : ServiceTicketParse(t).ok /\ t.type = "service_request"}
TailSamples == Range(SampleTails) \cup {<<"a","-","b",".","e","m","l">>}

\* messages sendTextMessage is called with ('' stands for every falsy message)
MessageSamples == {<<>>, formatServiceTicketMessage(EmergencyTicket)}

InitPure ==
  /\ hpc = "off"
  /\ notificationNumbers = <<>>
  /\ fromNumber = ValidNumberB
  /\ store = {}
  /\ pc = [e \in Runs |-> "idle"]
  /\ emailContent = [e \in Runs |-> ""]
  /\ sourceKey = [e \in Runs |-> EmptyKey]
  /\ processingStatus = [e \in Runs |-> "none"]
  /\ validatedData = [e \in Runs |-> NoTicket]
  /\ classifier = [e \in Runs |-> [calls |-> 0, sleeps |-> <<>>]]
  /\ send = [e \in Runs |-> <<>>]
  /\ messageDeliveryStatus = [e \in Runs |-> <<>>]
  /\ moveError = [e \in Runs |-> NoError]
  /\ storeLog = [e \in Runs |-> <<>>]
  /\ records = [e \in Runs |-> <<>>]
  /\ outcome = [e \in Runs |-> NoOutcome]
  /\ results = [e \in Runs |-> NoResult]
  /\ response = NoResponse
  /\ retry = IdleRetry
  /\ \/ \E number \in PhoneInputs :
          probe = [IdleProbe EXCEPT !.fn = "validatePhoneNumber", !.arg = number]
     \/ \E message \in MessageSamples, toNumber \in SampleNumbers \cup {ValidNumberB},
           from \in {ValidNumberB, ShortNumber}, resp \in TransportResponses :
          probe = [IdleProbe EXCEPT
                     !.fn = "sendTextMessage",
                     !.arg = [message |-> message, toNumber |-> toNumber,
                              from |-> from, response |-> resp]]
     \/ \E raw \in RawTickets :
          probe = [IdleProbe EXCEPT !.fn = "ServiceTicket.parse", !.arg = raw]
     \/ \E ticket \in ServiceRequests, tail \in TailSamples :
          probe = [IdleProbe EXCEPT
                     !.fn = "filename", !.arg = [ticket |-> ticket, tail |-> tail]]

Apply(fn, out) ==
  /\ probe.fn = fn
  /\ ~probe.applied
  /\ probe' = [probe EXCEPT !.applied = TRUE, !.out = out]
  /\ UNCHANGED <<runVars, retry>>

ApplyValidatePhoneNumber ==
  Apply("validatePhoneNumber", validatePhoneNumber(probe.arg))

ApplySendTextMessage ==
  Apply("sendTextMessage",
        sendTextMessage(probe.arg.message, probe.arg.toNumber, probe.arg.from,
                        probe.arg.response, 1))

ApplyServiceTicketParse ==
  Apply("ServiceTicket.parse", ServiceTicketParse(probe.arg))

\* the filename moveToProcessed builds for a service request
ApplyFilename ==
  Apply("filename", Filename(IncomingKey(probe.arg.tail), TRUE, probe.arg.ticket))

NextPure ==
  \/ ApplyValidatePhoneNumber
  \/ ApplySendTextMessage
  \/ ApplyServiceTicketParse
  \/ ApplyFilename

SpecPure == InitPure /\ [][NextPure]_vars

(* ------------------- runs and batches under fairness ------------------ *)
\* parseEmail called directly, or the handler invoked
InitLive == Init \/ InitBatch

NextLive ==
  \/ ListObjects
  \/ \E e \in Runs : ParseEmailCall(e) \/ GetObject(e) \/ RunStep(e)
  \/ HandlerReturn

\* every awaited call settles, and the event loop then runs the continuation
\* that waits for it: while some continuation can run, one does
SpecLive == InitLive /\ [][NextLive]_vars /\ WF_vars(NextLive)

TypeOK ==
  /\ hpc \in {"off", "list", "running", "returned"}
  /\ \A e \in Runs :
       /\ pc[e] \in {"idle", "call", "fetch", "simpleParser", "classify", "notify",
                     "copy", "delete", "errorCopy", "done"}
       /\ processingStatus[e] \in {"none", "started", "parsed", "analyzed", "completed"}
       /\ classifier[e].calls \in 0..MAX_RETRIES

(* ============================ properties =============================== *)
ArchivalErrors == {"copy failed", "delete failed", "error copy failed"}
Analyzed(e) == processingStatus[e] \in {"analyzed", "completed"}
HasDelete(e) == \E i \in DOMAIN storeLog[e] : storeLog[e][i].op = "delete"
ErrorCopyExists(e) ==
  \E o \in store : /\ o.key.folder = "errors"
                   /\ o.key.name = KeyTail(sourceKey[e]) \o <<"_">> \o EpochMillis
                   /\ o.body = KeyTail(sourceKey[e])

\* C1: no object-store command of a run (copy to processed/, delete, copy to
\* errors/) is issued while the send sequence of any recipient is unresolved:
\* the command log is empty whenever a recipient is pending, and every step
\* that extends the log starts from a state where all recipients have resolved.
C1_ArchiveAfterAllSends ==
  /\ [](\A e \in Runs :
          (\E r \in Recipients : send[e][r].state = "pending") => storeLog[e] = <<>>)
  /\ [][\A e \in Runs :
          storeLog'[e] # storeLog[e] =>
            \A r \in Recipients : send[e][r].state \in {"idle", "resolved"}]_vars

\* C1 witness: archival has started after one recipient was delivered to and
\* another exhausted its retries.
C1_Witness ==
  \E e \in Runs : \E r1, r2 \in Recipients :
    /\ storeLog[e] # <<>>
    /\ send[e][r1].delivered
    /\ ~send[e][r2].delivered /\ send[e][r2].calls = MAX_RETRIES

\* C2: in a finished service-request run with a non-empty recipient list,
\* whatever recipients failed, every recipient was attempted, the archival was
\* started, an error that reached the caller is an archival error, and when no
\* store command failed the run returned with the email archived.
C2_RecipientFailureContained ==
  \A e \in Runs :
    (IsServiceRequest(e) /\ Analyzed(e) /\ pc[e] = "done" /\ Recipients # {}) =>
      /\ \A r \in Recipients : send[e][r].calls >= 1
      /\ storeLog[e] # <<>>
      /\ outcome[e].kind = "thrown" => outcome[e].error.msg \in ArchivalErrors
      /\ moveError[e] = NoError =>
           /\ outcome[e].kind = "returned"
           /\ HasKey(store, outcome[e].processed_location)

\* C2 witness: the run returned although one recipient's number failed phone
\* validation, while another recipient was delivered to.
C2_Witness ==
  \E e \in Runs : \E r1, r2 \in Recipients :
    /\ outcome[e].kind = "returned"
    /\ ~validatePhoneNumber(notificationNumbers[r1]).ok /\ ~send[e][r1].delivered
    /\ send[e][r2].delivered

\* C3: after the notify step of a service-request run, message_delivery_status
\* has one DeliveryResult per recipient, naming the recipient, with success
\* true exactly when the recipient's send succeeded and an error string
\* otherwise.
C3_OneDeliveryResultPerRecipient ==
  \A e \in Runs :
    (IsServiceRequest(e) /\ Analyzed(e) /\ pc[e] \in {"copy", "delete", "errorCopy", "done"}) =>
      /\ Len(messageDeliveryStatus[e]) = Len(notificationNumbers)
      /\ \A r \in Recipients :
           /\ messageDeliveryStatus[e][r].kind = "object"
           /\ messageDeliveryStatus[e][r].number = notificationNumbers[r]
           /\ messageDeliveryStatus[e][r].success = send[e][r].delivered
           /\ ~send[e][r].delivered => messageDeliveryStatus[e][r].error # ""

\* C4: a delete of the source key is only ever issued second, after the copy
\* to the processed/ key, and with that copy in the store; and at every moment
\* the email is in the store at its source key or at its destination key.
C4_CopyBeforeDelete ==
  \A e \in Runs :
    /\ HasDelete(e) =>
         /\ storeLog[e][1] = [op |-> "copy", key |-> DestinationKey(e)]
         /\ storeLog[e][2] = [op |-> "delete", key |-> sourceKey[e]]
         /\ \E o \in store : o.key = DestinationKey(e) /\ o.body = KeyTail(sourceKey[e])
    /\ sourceKey[e] # EmptyKey =>
         \E o \in store : /\ o.body = KeyTail(sourceKey[e])
                          /\ o.key \in {sourceKey[e], DestinationKey(e)}

\* C4 witness: the delete succeeded, so the source key is gone.
C4_Witness ==
  \E e \in Runs : HasDelete(e) /\ sourceKey[e] # EmptyKey /\ ~HasKey(store, sourceKey[e])

\* the copy to processed/ succeeded, the delete failed, moveToProcessed is over
DeleteFailed(e) ==
  /\ pc[e] = "done"
  /\ Len(storeLog[e]) = 3
  /\ storeLog[e][2].op = "delete"

\* C5 as stated: after a successful copy and a failed delete, moveToProcessed
\* returns no destination key, raises an error, and a copy of the email exists
\* under errors/<original id>_<epochMillis>.
C5_ErrorCopyAfterDeleteFailure ==
  \A e \in Runs :
    DeleteFailed(e) =>
      /\ outcome[e].kind = "thrown"
      /\ outcome[e].processed_location = EmptyKey
      /\ ErrorCopyExists(e)

\* C5 amended: after a successful copy and a failed delete, moveToProcessed
\* returns no destination key and raises an error; the copy under errors/
\* exists exactly when the copy to the error location succeeded, and the error
\* raised is then the delete's; otherwise it is the error-location copy's.
C5_ErrorCopyUnlessItFails ==
  \A e \in Runs :
    DeleteFailed(e) =>
      /\ outcome[e].kind = "thrown"
      /\ outcome[e].processed_location = EmptyKey
      /\ outcome[e].error.msg \in {"delete failed", "error copy failed"}
      /\ ErrorCopyExists(e) <=> outcome[e].error.msg = "delete failed"

\* C5 witness: the delete failed and the copy under errors/ was made.
C5_Witness == \E e \in Runs : DeleteFailed(e) /\ ErrorCopyExists(e)

\* C6: for a not_service_request ticket no sendTextMessage call and no SMS
\* request is made for any recipient, message_delivery_status stays empty, and
\* every processed/ key the run writes is under non_service_requests/.
C6_NoSmsForNonServiceRequest ==
  \A e \in Runs :
    validatedData[e].type = "not_service_request" =>
      /\ \A r \in Recipients : send[e][r].calls = 0 /\ send[e][r].requests = 0
      /\ messageDeliveryStatus[e] = <<>>
      /\ outcome[e].message_delivery_status = <<>>
      /\ \A i \in DOMAIN storeLog[e] :
           storeLog[e][i].key.folder = "processed" =>
             storeLog[e][i].key.category = "non_service_requests"
      /\ outcome[e].kind = "returned" =>
           /\ outcome[e].processed_location.folder = "processed"
           /\ outcome[e].processed_location.category = "non_service_requests"
           /\ HasKey(store, outcome[e].processed_location)

\* C6 witness: a not_service_request email was archived with recipients
\* configured.
C6_Witness ==
  \E e \in Runs :
    /\ validatedData[e].type = "not_service_request"
    /\ outcome[e].kind = "returned"
    /\ Len(notificationNumbers) >= 1

\* C7: for a valid service_request ticket every recipient has had a
\* sendTextMessage call before the first store command, and every processed/
\* key the run writes is under service_requests/.
C7_NotifyThenArchiveAsServiceRequest ==
  \A e \in Runs :
    (IsServiceRequest(e) /\ Analyzed(e)) =>
      /\ storeLog[e] # <<>> => \A r \in Recipients : send[e][r].calls >= 1
      /\ \A i \in DOMAIN storeLog[e] :
           storeLog[e][i].key.folder = "processed" =>
             storeLog[e][i].key.category = "service_requests"
      /\ outcome[e].kind = "returned" =>
           /\ outcome[e].processed_location.folder = "processed"
           /\ outcome[e].processed_location.category = "service_requests"
           /\ HasKey(store, outcome[e].processed_location)

\* C7 witness: a service request was archived after two recipients were tried.
C7_Witness ==
  \E e \in Runs :
    /\ IsServiceRequest(e)
    /\ outcome[e].kind = "returned"
    /\ Len(notificationNumbers) >= 2
    /\ \A r \in Recipients : send[e][r].calls >= 1

\* C8: once the handler has listed K keys it returns 200, only after every
\* run is over, with one entry per key: success exactly for the keys whose
\* parseEmail returned, failure {key, error} for the others, so that
\* successful + failed = K; and a step that settles one key's entry changes
\* nothing of any other key's run.
C8_OneResultPerKey ==
  /\ [](hpc = "returned" /\ ListedRuns # {} => response.statusCode = 200)
  /\ []((hpc = "returned" /\ response.statusCode = 200) =>
          /\ \A e \in ListedRuns :
               /\ pc[e] = "done"
               /\ results[e].key = sourceKey[e]
               /\ results[e].status \in {"success", "error"}
               /\ results[e].status = "success" <=> outcome[e].kind = "returned"
          /\ response.successful + response.failed = Cardinality(ListedRuns)
          /\ response.successful = Cardinality({e \in ListedRuns : outcome[e].kind = "returned"})
          /\ Len(response.failedResults) = response.failed
          /\ {response.failedResults[i].key : i \in DOMAIN response.failedResults}
               = {sourceKey[e] : e \in {x \in ListedRuns : results[x].status = "error"}})
  /\ [][\A e \in Runs :
          results'[e] # results[e] =>
            \A o \in Runs \ {e} :
              /\ results'[o] = results[o] /\ outcome'[o] = outcome[o]
              /\ pc'[o] = pc[o] /\ processingStatus'[o] = processingStatus[o]]_vars

\* C8 witness: the handler returned with one key succeeded and one failed.
C8_Witness ==
  /\ hpc = "returned"
  /\ response.successful >= 1
  /\ response.failed >= 1

\* C9: the handler returns 200 whenever the listing call succeeded and 500
\* exactly when the listing call failed.
C9_StatusFollowsListing ==
  hpc = "returned" =>
    /\ response.statusCode \in {200, 500}
    /\ response.statusCode = 500 <=> response.error = "list failed"

\* C10: the status only advances one step along started, parsed, analyzed,
\* completed; it is parsed only with content that MIME-parsed, analyzed only
\* with a classifier answer that conforms to the schema, completed only with
\* the email copied and the source deleted; and the error record carries the
\* status reached before the failing step.
StatusOrder == <<"none", "started", "parsed", "analyzed", "completed">>
StatusRank(st) == CHOOSE i \in DOMAIN StatusOrder : StatusOrder[i] = st
ConformsToSchema(t) ==
  /\ t.type \in TicketTypes
  /\ t.urgency \in Urgencies \cup {NullV, UndefV}
  /\ t.system_type \in SystemTypes \cup {NullV, UndefV}
StatusOfFailure(msg) ==
  CASE msg \in {"Email content is required", "Source key is required",
                "MIME parse error"} -> "started"
    [] msg \in {"classifier call failed", "Unexpected token in JSON", "ZodError"} -> "parsed"
    [] msg \in ArchivalErrors -> "analyzed"
    [] OTHER -> "none"
C10_StatusAdvancesInOrder ==
  /\ [][\A e \in Runs :
          processingStatus'[e] # processingStatus[e] =>
            StatusRank(processingStatus'[e]) = StatusRank(processingStatus[e]) + 1]_vars
  /\ [](\A e \in Runs :
          /\ StatusRank(processingStatus[e]) >= StatusRank("parsed") =>
               emailContent[e] = "mime"
          /\ StatusRank(processingStatus[e]) >= StatusRank("analyzed") =>
               classifier[e].calls >= 1 /\ ConformsToSchema(validatedData[e])
          /\ processingStatus[e] = "completed" =>
               /\ storeLog[e] = << [op |-> "copy", key |-> DestinationKey(e)],
                                   [op |-> "delete", key |-> sourceKey[e]] >>
               /\ HasKey(store, DestinationKey(e)) /\ ~HasKey(store, sourceKey[e])
          /\ outcome[e].kind = "thrown" =>
               /\ records[e][Len(records[e])].event = "email_processing_error"
               /\ records[e][Len(records[e])].status = processingStatus[e]
               /\ records[e][Len(records[e])].status = StatusOfFailure(outcome[e].error.msg))

\* C10 witness: a run that failed after the analysis, with status analyzed in
\* its error record.
C10_Witness ==
  \E e \in Runs :
    /\ outcome[e].kind = "thrown"
    /\ records[e][Len(records[e])].status = "analyzed"

\* C11: a finished parseEmail call has logged exactly one record; on success
\* it has status, type, message_delivery_status, source_key, destination_key
\* and the elapsed time; on failure it has status, type,
\* message_delivery_status, source_key and the elapsed time, and no
\* destination_key.
C11_OneProcessingRecord ==
  \A e \in Runs :
    /\ pc[e] # "done" => records[e] = <<>>
    /\ outcome[e].kind # "none" =>
         /\ Len(records[e]) = 1
         /\ outcome[e].kind = "returned" =>
              /\ records[e][1].event = "email_processed"
              /\ {"status", "type", "message_delivery_status", "source_key",
                  "destination_key", "processing_time_ms"} \subseteq records[e][1].fields
         /\ outcome[e].kind = "thrown" =>
              /\ records[e][1].event = "email_processing_error"
              /\ {"status", "type", "message_delivery_status", "source_key",
                  "processing_time_ms"} \subseteq records[e][1].fields
              /\ "destination_key" \notin records[e][1].fields

\* C12: retryOperation called with maxRetries = n and an operation that fails
\* k < n times and then succeeds returns the operation's value after exactly
\* k + 1 calls, and makes no call after that.
C12_ReturnsAfterKFailures ==
  /\ []((retry.state \in {"returned", "thrown"} /\ retry.plan < retry.maxRetries) =>
          /\ retry.state = "returned"
          /\ retry.value = "done"
          /\ retry.calls = retry.plan + 1)
  /\ [][retry.state = "returned" => retry' = retry]_vars

\* C12 witness: maxRetries = 3, two failures, then the value on the third call.
C12_Witness ==
  /\ retry.state = "returned"
  /\ retry.maxRetries = 3
  /\ retry.plan = 2
  /\ retry.calls = 3

\* C13: retryOperation called with maxRetries = n and an operation that
\* always fails calls it exactly n times and then throws the error of the
\* n-th call, kind and message unchanged.
C13_ThrowsLastError ==
  (retry.state \in {"returned", "thrown"} /\ retry.plan >= retry.maxRetries) =>
    /\ retry.state = "thrown"
    /\ retry.calls = retry.maxRetries
    /\ Len(retry.errors) = retry.maxRetries
    /\ retry.thrown = retry.errors[retry.maxRetries]
    /\ retry.thrown.at = retry.maxRetries

\* C13 witness: three attempts failed with different errors and the third
\* error was thrown.
C13_Witness ==
  /\ retry.state = "thrown"
  /\ retry.maxRetries = 3
  /\ retry.errors[1].msg # retry.errors[3].msg
  /\ retry.thrown.msg = retry.errors[3].msg

Applied(fn) == probe.fn = fn /\ probe.applied

\* C14: every ticket the schema accepts comes out with each optional field
\* present: a field the input left out is null in the validated ticket,
\* never undefined.
C14_AbsentFieldsAreNull ==
  (Applied("ServiceTicket.parse") /\ probe.out.ok) =>
    /\ probe.out.value.urgency # UndefV
    /\ probe.out.value.system_type # UndefV
    /\ probe.out.value.location.kind # UndefV
    /\ probe.out.value.location.kind = "object" =>
         /\ probe.out.value.location.city # UndefS
         /\ probe.out.value.location.state # UndefS

PlusCount(number) == Len(SelectSeq(number, LAMBDA c : c = "+"))
DigitsOf(number) == SelectSeq(number, LAMBDA c : c \in Digits)
DigitCountOk(number) ==
  Len(DigitsOf(number)) >= MinPhoneDigits /\ Len(DigitsOf(number)) <= MaxPhoneDigits
FirstPlus(number) == CHOOSE i \in DOMAIN number : number[i] = "+"
NoDigitBeforePlus(number) == \A i \in 1..(FirstPlus(number) - 1) : number[i] \notin Digits
PhoneResultOk(number, out) ==
  out.ok => out.value = <<"+">> \o DigitsOf(number)

\* C15 as stated: validatePhoneNumber accepts a raw input exactly when it has
\* one +, the + is its first character, and it has 11 to 15 digits; an
\* accepted input comes back as + and its digits.
C15_AcceptsLeadingPlus ==
  Applied("validatePhoneNumber") =>
    /\ probe.out.ok <=> /\ PlusCount(probe.arg) = 1
                        /\ probe.arg[1] = "+"
                        /\ DigitCountOk(probe.arg)
    /\ PhoneResultOk(probe.arg, probe.out)

\* C15 amended: validatePhoneNumber accepts a raw input exactly when it has
\* one +, no digit stands before the + (other characters may), and it has 11
\* to 15 digits; an accepted input comes back as + and its digits.
C15_AcceptsPlusBeforeDigits ==
  Applied("validatePhoneNumber") =>
    /\ probe.out.ok <=> /\ PlusCount(probe.arg) = 1
                        /\ NoDigitBeforePlus(probe.arg)
                        /\ DigitCountOk(probe.arg)
    /\ PhoneResultOk(probe.arg, probe.out)

\* C15 witness: a number written with separators and the most digits allowed
\* was accepted and came back as + and the digits.
C15_Witness ==
  /\ Applied("validatePhoneNumber")
  /\ probe.out.ok
  /\ probe.arg[1] = "+"
  /\ Len(probe.arg) > Len(probe.out.value)
  /\ Len(probe.out.value) = 1 + MaxPhoneDigits

NonSuccess(resp) == resp.kind = "response" /\ ~resp.ok
SendPreconditions(arg) ==
  /\ arg.message # <<>>
  /\ validatePhoneNumber(arg.toNumber).ok
  /\ validatePhoneNumber(arg.from).ok

\* C16 as stated: a call of sendTextMessage issues at most one request, and
\* none unless the message is non-empty and both numbers validate; a
\* non-success response makes it fail with the response's status and body.
C16_OneValidatedRequest ==
  Applied("sendTextMessage") =>
    /\ probe.out.requests <= 1
    /\ probe.out.requests = 1 => SendPreconditions(probe.arg)
    /\ (probe.out.requests = 1 /\ NonSuccess(probe.arg.response)) =>
         /\ ~probe.out.ok
         /\ probe.out.status = probe.arg.response.status
         /\ probe.out.body = probe.arg.response.body

\* C16 amended: as above, but the error of a non-success response carries the
\* status and the body decoded as JSON, and null in place of a body that is
\* not JSON.
C16_OneValidatedRequestJsonBody ==
  Applied("sendTextMessage") =>
    /\ probe.out.requests <= 1
    /\ probe.out.requests = 1 => SendPreconditions(probe.arg)
    /\ (probe.out.requests = 1 /\ NonSuccess(probe.arg.response)) =>
         /\ ~probe.out.ok
         /\ probe.out.status = probe.arg.response.status
         /\ probe.arg.response.json => probe.out.body = probe.arg.response.body
         /\ ~probe.arg.response.json => probe.out.body = NullV
    /\ (SendPreconditions(probe.arg) /\ probe.arg.response = Accepted) =>
         probe.out.ok /\ probe.out.requests = 1

\* C16 witness: one request went out and was answered 429 with a JSON body;
\* the call failed with that status and body.
C16_Witness ==
  /\ Applied("sendTextMessage")
  /\ probe.arg.response = RateLimited
  /\ probe.out.requests = 1
  /\ ~probe.out.ok
  /\ probe.out.status = 429

AlphaNumeric == Range(LowerLetters) \cup Digits
\* lower-cased, every run of other characters replaced by one underscore
RECURSIVE Underscored(_)
Underscored(s) ==
  IF s = <<>> THEN <<>>
  ELSE IF s[1] \in AlphaNumeric THEN <<s[1]>> \o Underscored(Tail(s))
  ELSE IF Len(s) > 1 /\ s[2] \notin AlphaNumeric THEN Underscored(Tail(s))
  ELSE <<"_">> \o Underscored(Tail(s))
Normalised(s) == Underscored(ToLowerCase(s))
SuppliesPlace(ticket) ==
  /\ ticket.location.kind = "object"
  /\ Truthy(ticket.location.city) \/ Truthy(ticket.location.state)
ExpectedLocation(ticket) ==
  IF SuppliesPlace(ticket)
    THEN Normalised(Join(SelectSeq(<<ticket.location.city, ticket.location.state>>,
                                   Truthy), <<"_">>))
    ELSE <<"u","n","k","n","o","w","n","_","l","o","c","a","t","i","o","n">>

\* C17: the archived filename of a service request is
\* <date>_<location>_<system>_<urgency>_<original id tail>, lower-cased with
\* runs of non-alphanumeric characters collapsed to one underscore, where
\* <location> is city_state and is unknown_location when the ticket has
\* neither a city nor a state.
C17_ServiceRequestFilename ==
  Applied("filename") =>
    probe.out = Join(<<IsoDate, ExpectedLocation(probe.arg.ticket),
                       SystemPart(probe.arg.ticket), UrgencyPart(probe.arg.ticket),
                       Normalised(probe.arg.tail)>>, <<"_">>)

\* C18: whenever a run of parseEmail fails, at whatever stage, a copy of the
\* email lies under errors/ afterwards.
C18_FailedRunLeavesErrorCopy ==
  \A e \in Runs : outcome[e].kind = "thrown" => ErrorCopyExists(e)

\* C19: within a run sendTextMessage is called for each recipient at least
\* once and at most MAX_RETRIES times, never again for a recipient after a
\* call for it succeeded (so at most one success per recipient), and a step
\* that calls it for one recipient makes no call for another.
C19_RetryBudgetPerRecipient ==
  /\ [](\A e \in Runs : \A r \in DOMAIN send[e] :
          /\ send[e][r].calls <= MAX_RETRIES
          /\ send[e][r].successes <= 1
          /\ send[e][r].state = "resolved" => send[e][r].calls >= 1
          /\ send[e][r].delivered <=> send[e][r].successes = 1)
  /\ [][\A e \in Runs : \A r \in DOMAIN send[e] :
          /\ send[e][r].successes >= 1 => send'[e][r] = send[e][r]
          /\ send'[e][r].calls # send[e][r].calls =>
               /\ send'[e][r].calls = send[e][r].calls + 1
               /\ \A q \in DOMAIN send[e] \ {r} : send'[e][q] = send[e][q]]_vars

\* C19 witness: one recipient's sends failed MAX_RETRIES times while another
\* recipient was delivered to by the first call.
C19_Witness ==
  \E e \in Runs : \E r1, r2 \in Recipients :
    /\ send[e][r1].state = "resolved" /\ send[e][r2].state = "resolved"
    /\ send[e][r1].calls = MAX_RETRIES /\ send[e][r1].successes = 0
    /\ send[e][r1].requests = MAX_RETRIES
    /\ send[e][r2].calls = 1 /\ send[e][r2].successes = 1

ClassificationErrors == {"classifier call failed", "Unexpected token in JSON", "ZodError"}
FailedClassifying(e) ==
  /\ outcome[e].kind = "thrown"
  /\ outcome[e].error.msg \in ClassificationErrors

\* C20: a run calls the classifier at most MAX_RETRIES times; when all calls
\* failed, or a call returned output that is not JSON or not a valid ticket,
\* the run fails with no further classifier call, no call of sendTextMessage
\* and no copy or delete in the object store.
C20_ClassifierFailureIsFatal ==
  /\ [](\A e \in Runs :
          /\ classifier[e].calls <= MAX_RETRIES
          /\ (outcome[e].kind = "thrown" /\ processingStatus[e] = "parsed") =>
               FailedClassifying(e)
          /\ FailedClassifying(e) =>
               /\ processingStatus[e] = "parsed"
               /\ outcome[e].error.msg = "classifier call failed" =>
                    classifier[e].calls = MAX_RETRIES
               /\ \A r \in DOMAIN send[e] :
                    send[e][r].calls = 0 /\ send[e][r].requests = 0
               /\ storeLog[e] = <<>>
               /\ HasKey(store, sourceKey[e])
               /\ ~ErrorCopyExists(e))
  /\ [][\A e \in Runs :
          pc[e] = "done" =>
            /\ classifier'[e] = classifier[e]
            /\ send'[e] = send[e]
            /\ storeLog'[e] = storeLog[e]]_vars

\* C20 witness: the first classifier call failed, the second returned a ticket
\* the schema rejects, and the run failed after those two calls.
C20_Witness ==
  \E e \in Runs :
    /\ FailedClassifying(e)
    /\ outcome[e].error.msg = "ZodError"
    /\ classifier[e].calls = 2
    /\ classifier[e].sleeps = <<RETRY_DELAY>>

ErrorCopies(e) ==
  {i \in DOMAIN storeLog[e] :
     storeLog[e][i].op = "copy" /\ storeLog[e][i].key = ErrorKey(sourceKey[e])}
PrimaryFailed(e) == moveError[e] # NoError

\* C21: when the copy to processed/ or the delete fails, the copy to the error
\* location is attempted exactly once and moveToProcessed then fails with the
\* error of that copy or delete, whether or not the copy to the error
\* location succeeded.
C21_OriginalErrorSurvives ==
  \A e \in Runs :
    (PrimaryFailed(e) /\ pc[e] = "done") =>
      /\ Cardinality(ErrorCopies(e)) = 1
      /\ outcome[e].kind = "thrown"
      /\ outcome[e].error = moveError[e]

Backoff(j) == RETRY_DELAY * 2^(j - 1)

\* C22: retryOperation sleeps RETRY_DELAY * 2^i after the failure of attempt
\* i (from 0) when another attempt follows, and at no other time: one sleep
\* per failed attempt that is not the last, so maxRetries - 1 sleeps when
\* every attempt fails and none when the first attempt succeeds.
C22_ExponentialBackoff ==
  /\ [](/\ \A j \in DOMAIN retry.sleeps : retry.sleeps[j] = Backoff(j)
        /\ retry.state = "loop" => Len(retry.sleeps) = retry.calls
        /\ retry.state = "returned" => Len(retry.sleeps) = retry.calls - 1
        /\ retry.state = "thrown" =>
             /\ Len(retry.sleeps) = retry.maxRetries - 1
             /\ Len(retry.sleeps) = retry.calls - 1
        /\ (retry.state = "returned" /\ retry.plan = 0) => retry.sleeps = <<>>)
  /\ [][retry'.sleeps # retry.sleeps =>
          /\ Len(retry'.errors) = Len(retry.errors) + 1
          /\ retry'.state = "loop"
          /\ Len(retry'.sleeps) = Len(retry.sleeps) + 1]_vars

\* C22 witness: four attempts failed; the loop slept 1000, 2000 and 4000 ms
\* between them and not after the fourth.
C22_Witness ==
  /\ retry.state = "thrown"
  /\ retry.maxRetries = 4
  /\ retry.sleeps = <<1000, 2000, 4000>>

InputErrors == {"Email content is required", "Source key is required", "MIME parse error"}
FailedOnInput(e) == outcome[e].kind = "thrown" /\ outcome[e].error.msg \in InputErrors
Entered(e) == pc[e] \notin {"idle", "call", "fetch"}

\* C23: a call of parseEmail with empty content or an empty source key, or
\* whose content fails MIME parsing, fails at once: no classifier call, no
\* call of sendTextMessage, no store command, and the object at the incoming
\* key is as it was.
C23_InputFailureTouchesNothing ==
  /\ [](\A e \in Runs :
          /\ (Entered(e) /\ emailContent[e] = "") =>
               FailedOnInput(e) /\ outcome[e].error.msg = "Email content is required"
          /\ (Entered(e) /\ emailContent[e] # "" /\ sourceKey[e] = EmptyKey) =>
               FailedOnInput(e) /\ outcome[e].error.msg = "Source key is required"
          /\ FailedOnInput(e) =>
               /\ pc[e] = "done"
               /\ processingStatus[e] = "started"
               /\ classifier[e].calls = 0
               /\ \A r \in DOMAIN send[e] :
                    send[e][r].calls = 0 /\ send[e][r].requests = 0
               /\ storeLog[e] = <<>>
               /\ \A o \in store : o.key.folder = "incoming" /\ o.body = o.key.name)
  /\ [][\A e \in Runs :
          (FailedOnInput(e) /\ hpc = "off") => store' = store]_vars

\* C23 witness: a call with content that is not parseable MIME and a source
\* key whose object lies under incoming/ has failed.
C23_Witness ==
  \E e \in Runs :
    /\ FailedOnInput(e)
    /\ outcome[e].error.msg = "MIME parse error"
    /\ HasKey(store, sourceKey[e])
    /\ Len(records[e]) = 1

ArchiveCopies(e) ==
  {storeLog[e][i].key : i \in {j \in DOMAIN storeLog[e] :
                                 /\ storeLog[e][j].op = "copy"
                                 /\ storeLog[e][j].key.folder = "processed"}}

\* C25: two runs of one batch for different source keys never copy to the
\* same key under processed/.
C25_DistinctDestinationKeys ==
  \A e1, e2 \in Runs :
    (e1 # e2 /\ sourceKey[e1] # sourceKey[e2]) =>
      ArchiveCopies(e1) \cap ArchiveCopies(e2) = {}

Called(e) == processingStatus[e] # "none"
Commands(e, op) == {i \in DOMAIN storeLog[e] : storeLog[e][i].op = op}

\* no run is under way and no handler invocation is open
Terminated ==
  /\ hpc \in {"off", "returned"}
  /\ \A e \in Runs : pc[e] \in {"idle", "done"}

\* C24: every parseEmail run ends, either returned with status completed or
\* with an error thrown to the caller, never both; it makes at most
\* MAX_RETRIES classifier calls, MAX_RETRIES sendTextMessage calls per
\* recipient, two copies and one delete; and an invoked handler returns a
\* response.
C24_RunsAndBatchesTerminate ==
  /\ <>[]Terminated
  /\ [](hpc = "returned" => response.statusCode \in {200, 500})
  /\ [](\A e \in Runs :
          /\ (pc[e] = "done" /\ Called(e)) <=> outcome[e].kind \in {"returned", "thrown"}
          /\ outcome[e].kind = "returned" =>
               /\ processingStatus[e] = "completed"
               /\ outcome[e].error = NoError
          /\ outcome[e].kind = "thrown" =>
               /\ outcome[e].error # NoError
               /\ outcome[e].processed_location = EmptyKey
          /\ classifier[e].calls <= MAX_RETRIES
          /\ \A r \in DOMAIN send[e] : send[e][r].calls <= MAX_RETRIES
          /\ Cardinality(Commands(e, "copy")) <= 2
          /\ Cardinality(Commands(e, "delete")) <= 1)
  /\ [][\A e \in Runs : pc[e] = "done" => pc'[e] = "done" /\ outcome'[e] = outcome[e]]_vars

\* C24 witness: a run ended with an error after the most calls a run can
\* make: three classifier calls, three sends to a recipient, the copy, the
\* delete and the copy to the error location.
C24_Witness ==
  \E e \in Runs : \E r \in Recipients :
    /\ pc[e] = "done"
    /\ outcome[e].kind = "thrown"
    /\ classifier[e].calls = MAX_RETRIES
    /\ send[e][r].calls = MAX_RETRIES
    /\ Cardinality(Commands(e, "copy")) = 2
    /\ Cardinality(Commands(e, "delete")) = 1

====
